---- MODULE Spec2Model ----
(***************************************************************************)
(* Model of the kobo firmware-patching tool (main.go).                     *)
(*                                                                         *)
(* One process run goes main -> patchFirmware -> buildKobopatch,           *)
(* downloadFirmware, the two filepath.Walk passes over build/src and the   *)
(* version's patch directory, updateKobopatchYaml and the patcher run.     *)
(* The files under build/ survive from one run to the next.                *)
(*                                                                         *)
(* Strings that the code takes apart or puts together are sequences of     *)
(* pieces: a file name is the sequence of its dot-separated pieces (so     *)
(* filepath.Ext is its last piece), a path below the version directory is  *)
(* the sequence of its element names, a file's content is the sequence of  *)
(* its chunks, and a YAML string value is the sequence of its tokens.      *)
(***************************************************************************)
EXTENDS Integers, Sequences, FiniteSets, TLC

\* ------------------------------------------------------------ bounds
MaxRuns == 2
MaxDevices == 2
MaxVersions == 2

\* ------------------------------------------------------------ values
UUIDs == {"u370", "u373"}
Versions == {"v1", "v2"}
Platforms == {"linux/amd64", "linux/386", "darwin/amd64", "windows/386", "linux/arm64"}
StatusCodes == {"200", "404"}

Newline == <<"\n">>

\* The pieces file names are made of, in byte order.
PieceOrder == <<"a", "b", "display", "kobo-update", "nickel", "v1", "v2", "yaml", "zip">>

Rank(piece) == CHOOSE i \in 1..Len(PieceOrder) : PieceOrder[i] = piece

Min(a, b) == IF a < b THEN a ELSE b

\* a sorts before b, byte-wise ('.' sorts before every letter and digit).
NameLess(a, b) ==
  \E i \in 1..(Min(Len(a), Len(b)) + 1) :
    /\ \A k \in 1..(i - 1) : a[k] = b[k]
    /\ \/ i > Len(a) /\ i <= Len(b)
       \/ i <= Len(a) /\ i <= Len(b) /\ Rank(a[i]) < Rank(b[i])

\* p is walked before q: filepath.Walk visits each directory's entries in
\* lexical order, so files are met in the element-wise order of their paths.
PathLess(p, q) ==
  \E i \in 1..(Min(Len(p), Len(q)) + 1) :
    /\ \A k \in 1..(i - 1) : p[k] = q[k]
    /\ \/ i > Len(p) /\ i <= Len(q)
       \/ i <= Len(p) /\ i <= Len(q) /\ NameLess(p[i], q[i])

\* Variant of WalkOrder: the entries are met in descending order.
RECURSIVE WalkOrderDescending(_)
WalkOrderDescending(paths) ==
  IF paths = {} THEN <<>>
  ELSE LET first == CHOOSE p \in paths : \A q \in paths \ {p} : PathLess(q, p)
       IN <<first>> \o WalkOrderDescending(paths \ {first})

RECURSIVE WalkOrder(_)
WalkOrder(paths) ==
  IF paths = {} THEN <<>>
  ELSE LET first == CHOOSE p \in paths : \A q \in paths \ {p} : PathLess(p, q)
       IN <<first>> \o WalkOrder(paths \ {first})

\* filepath.Ext: the suffix from the last dot, "" when the name has none.
Ext(name) == IF Len(name) > 1 THEN name[Len(name)] ELSE ""

\* filepath.Join(buildSrcDirectory, "kobo-update-<version>.zip")
Outfile(v) == <<"kobo-update", v, "zip">>

\* filepath.Base(filepath.Dir(path)) of a file below versions/<version>.
ParentBase(path, v) == IF Len(path) >= 2 THEN path[Len(path) - 1] ELSE <<v>>

\* The bytes of a fragment file and of an HTTP response body, in two chunks.
RECURSIVE Flatten(_)
Flatten(path) == IF path = <<>> THEN <<>> ELSE <<"/">> \o Head(path) \o Flatten(Tail(path))

FragmentBytes(v, path) ==
  << <<"frag", v>> \o Flatten(path) \o <<"1">>, <<"frag", v>> \o Flatten(path) \o <<"2">> >>

ResponseBody(url, status) == << <<"body", status>> \o url \o <<"1">>, <<"body", status>> \o url \o <<"2">> >>

ProperPrefixes(s) == {SubSeq(s, 1, k) : k \in 0..(Len(s) - 1)}

\* ------------------------------------------------------------ firmwares.json
\* A Firmware is [Id, Versions]; a FirmwareVersion is [Version, Download].
\* (Hardware, Model and Date are decoded and never read.)  Every entry has a
\* download URL of its own, so that two entries are never the same value.
VersionLists == UNION {[1..n -> Versions] : n \in 0..MaxVersions}

RawCatalogs == UNION {[1..n -> [Id : UUIDs, Versions : VersionLists]] : n \in 0..MaxDevices}

WithUrls(raw) ==
  [i \in 1..Len(raw) |->
    [Id |-> raw[i].Id,
     Versions |-> [j \in 1..Len(raw[i].Versions) |->
                    [Version |-> raw[i].Versions[j],
                     Download |-> <<"url", ToString(i), ToString(j)>>]]]]

Catalogs == {WithUrls(raw) : raw \in RawCatalogs}

DefaultCatalog ==
  WithUrls(<<[Id |-> "u370", Versions |-> <<"v1", "v2">>]>>)

\* ------------------------------------------------------------ kobopatch-patches/src/versions
GroupPlain == <<"display">>
GroupYaml == <<"nickel", "yaml">>
FragA == <<"a", "yaml">>
FragB == <<"b", "yaml">>

\* The fragment files a version directory may hold: two groups (one whose
\* directory name ends in .yaml, one whose name does not), directories
\* nested in them and a file directly in the version directory.
TreePaths ==
  { <<GroupPlain, FragA>>, <<GroupPlain, FragB>>, <<GroupYaml, FragA>>, <<GroupYaml, FragB>>,
    <<GroupYaml, GroupPlain, FragA>>, <<GroupPlain, GroupYaml, FragB>>, <<FragA>> }

DefaultVersionsDir ==
  [v \in Versions |-> IF v = "v1" THEN {<<GroupPlain, FragA>>, <<GroupYaml, FragA>>}
                                  ELSE {<<GroupYaml, FragA>>}]

\* ------------------------------------------------------------ KobopatchYaml
ScalarFields == {"Version", "In", "Out", "Log", "PatchFormat", "Lrelease"}
MapFields == {"Patches", "Overrides", "Translations", "Files"}

\* The yaml tag of each field of the struct.
KeyOf ==
  [Version |-> "version", In |-> "in", Out |-> "out", Log |-> "log",
   PatchFormat |-> "patchFormat", Patches |-> "patches", Overrides |-> "overrides",
   Lrelease |-> "lrelease", Translations |-> "translations", Files |-> "files"]

\* var kobopatchYaml KobopatchYaml: empty strings and nil maps.
ZeroYaml == [f \in ScalarFields \cup MapFields |-> <<>>]

Placeholder == "{{version}}"

Restrict(f, keys) == [k \in keys |-> f[k]]

\* kobopatch-patches/src/template/kobopatch.yaml as shipped, with the
\* version field either the placeholder or a literal.
TemplateDoc(ver, pat, ovr) ==
  [version |-> ver,
   in |-> <<"src/kobo-update-", Placeholder, ".zip">>,
   out |-> <<"out/KoboRoot.tgz">>,
   log |-> <<"out/log.txt">>,
   patchFormat |-> <<"kobopatch">>,
   patches |-> pat,
   overrides |-> ovr]

TemplatePatches ==
  { [x \in {"src/nickel.yaml"} |-> <<"usr/local/Kobo/nickel">>],
    [x \in {"src/nickel.yaml", "src/libnickel.yaml"} |-> <<"usr/local/Kobo/", Placeholder>>] }

TemplateOverrides ==
  { <<>>, [x \in {"src/nickel.yaml"} |-> [y \in {"Opt A", "Opt B"} |-> y = "Opt A"]] }

TemplateDocs ==
  { TemplateDoc(ver, pat, ovr) :
      ver \in {<<Placeholder>>, <<"0.0">>}, pat \in TemplatePatches, ovr \in TemplateOverrides }

OverridePatches ==
  { [x \in {"src/nickel.yaml"} |-> <<"custom/nickel">>],
    [x \in {"src/extra.yaml"} |-> <<"custom/extra">>] }

OverrideOverrides ==
  { [x \in {"src/nickel.yaml"} |-> [y \in {"Opt A"} |-> FALSE]],
    [x \in {"src/extra.yaml"} |-> [y \in {"Opt C"} |-> TRUE]] }

FullOverride(pat, ovr) ==
  [version |-> <<"9.9">>, in |-> <<"other.zip">>, out |-> <<"out/Custom.tgz">>,
   patches |-> pat, overrides |-> ovr]

\* overrides.yaml: any subset of the keys, the empty document included.
OverrideDocs ==
  { Restrict(FullOverride(pat, ovr), keys) :
      pat \in OverridePatches, ovr \in OverrideOverrides,
      keys \in SUBSET {"version", "in", "out", "patches", "overrides"} }

DefaultTemplate ==
  TemplateDoc(<<Placeholder>>, [x \in {"src/nickel.yaml"} |-> <<"usr/local/Kobo/nickel">>], <<>>)

DefaultOverrides ==
  [overrides |-> [x \in {"src/nickel.yaml"} |-> [y \in {"Opt A"} |-> FALSE]]]

\* ------------------------------------------------------------ pure parts of the code
\* for _, v := range fw.Versions { if v.Version == *version { ... } }
RECURSIVE ScanVersions(_, _, _)
ScanVersions(versions, j, v) ==
  IF j > Len(versions) THEN 0
  ELSE IF versions[j].Version = v THEN j
  ELSE ScanVersions(versions, j + 1, v)

\* for _, fw := range firmwares { if fw.Id == *uuid { ... } }: the entry
\* patchFirmware is called with, or found = FALSE when the loops run out.
RECURSIVE ScanFirmwares(_, _, _, _)
ScanFirmwares(fws, i, u, v) ==
  IF i > Len(fws) THEN [found |-> FALSE, i |-> 0, j |-> 0]
  ELSE IF fws[i].Id = u /\ ScanVersions(fws[i].Versions, 1, v) # 0
       THEN [found |-> TRUE, i |-> i, j |-> ScanVersions(fws[i].Versions, 1, v)]
       ELSE ScanFirmwares(fws, i + 1, u, v)

\* Variant of FindFirmware: the check of fw.Id is left out.
RECURSIVE ScanAnyId(_, _, _)
ScanAnyId(fws, i, v) ==
  IF i > Len(fws) THEN [found |-> FALSE, i |-> 0, j |-> 0]
  ELSE IF ScanVersions(fws[i].Versions, 1, v) # 0
       THEN [found |-> TRUE, i |-> i, j |-> ScanVersions(fws[i].Versions, 1, v)]
       ELSE ScanAnyId(fws, i + 1, v)

FindFirmwareAnyId(fws, u, v) == ScanAnyId(fws, 1, v)

FindFirmware(fws, u, v) == ScanFirmwares(fws, 1, u, v)

\* The switch on runtime.GOOS/GOARCH: package -> output binary name.
BuildMap(p) ==
  CASE p = "linux/amd64" ->
         [pkg \in {"kobopatch", "tools/cssextract", "tools/kobopatch-apply"} |->
           CASE pkg = "kobopatch" -> "kobopatch-linux-64bit"
             [] pkg = "tools/cssextract" -> "kobopatch-apply-linux-64bit"
             [] OTHER -> "cssextract-linux-64bit"]
    [] p = "linux/386" ->
         [pkg \in {"kobopatch", "tools/cssextract", "tools/kobopatch-apply"} |->
           CASE pkg = "kobopatch" -> "kobopatch-linux-32bit"
             [] pkg = "tools/cssextract" -> "kobopatch-apply-linux-32bit"
             [] OTHER -> "cssextract-linux-32bit"]
    [] p = "darwin/amd64" ->
         [pkg \in {"kobopatch", "tools/cssextract", "tools/kobopatch-apply"} |->
           CASE pkg = "kobopatch" -> "kobopatch-darwin-64bit"
             [] pkg = "tools/cssextract" -> "cssextract-darwin-64bit"
             [] OTHER -> "kobopatch-apply-darwin-64bit"]
    [] p = "windows/386" ->
         [pkg \in {"kobopatch", "tools/cssextract", "tools/kobopatch-apply"} |->
           CASE pkg = "kobopatch" -> "koboptch-windows.exe"
             [] pkg = "tools/cssextract" -> "cssextract-windows.exe"
             [] OTHER -> "koboptch-apply-windows.exe"]
    [] OTHER -> <<>>

\* buildMap["kobopatch"]: the zero value "" when the key is missing.
MapGet(m, k) == IF k \in DOMAIN m THEN m[k] ELSE ""

\* bytes.Replace(file, "{{version}}", *version, -1) on a string value.
ReplaceIn(str, v) == [i \in 1..Len(str) |-> IF str[i] = Placeholder THEN v ELSE str[i]]

\* The same on the whole template text: every string value in it.
ReplaceVersion(doc, v) ==
  [k \in DOMAIN doc |->
    IF k \in {"patches", "translations"}
    THEN [x \in DOMAIN doc[k] |-> ReplaceIn(doc[k][x], v)]
    ELSE IF k \in {"overrides", "files"} THEN doc[k]
    ELSE ReplaceIn(doc[k], v)]

\* yaml.v3 decoding a mapping into a map field that already holds a map:
\* the map is kept and each key of the document is set in it.
MergeMap(old, new) ==
  [x \in DOMAIN old \cup DOMAIN new |-> IF x \in DOMAIN new THEN new[x] ELSE old[x]]

\* yaml.Unmarshal(doc, &kobopatchYaml): the fields the document has are
\* decoded into the struct, the others keep what the struct held.
Unmarshal(doc, s) ==
  [f \in DOMAIN s |->
    IF KeyOf[f] \notin DOMAIN doc THEN s[f]
    ELSE IF f \in ScalarFields THEN doc[KeyOf[f]]
    ELSE MergeMap(s[f], doc[KeyOf[f]])]

\* fmt.Sprintf("src/kobo-update-%s.zip", *version)
InPath(v) == <<"src/kobo-update-", v, ".zip">>

\* Variant of MergedYaml: the template is decoded after the overrides.
MergedYamlTemplateLast(template, overrides, v) ==
  LET fromOverrides == Unmarshal(overrides, ZeroYaml)
      withTemplate == Unmarshal(ReplaceVersion(template, v), fromOverrides)
  IN [withTemplate EXCEPT !["Version"] = <<v>>, !["In"] = InPath(v)]

\* The struct updateKobopatchYaml marshals.
MergedYaml(template, overrides, v) ==
  LET fromTemplate == Unmarshal(ReplaceVersion(template, v), ZeroYaml)
      withOverrides == Unmarshal(overrides, fromTemplate)
  IN [withOverrides EXCEPT !["Version"] = <<v>>, !["In"] = InPath(v)]

IsOutfile(name) == \E v \in Versions : name = Outfile(v)

\* The files of build/src other than downloaded firmware.
MergedFiles(dir) == Restrict(dir, {n \in DOMAIN dir : ~IsOutfile(n)})

\* ------------------------------------------------------------ state
VARIABLES
  platform,       \* runtime.GOOS/GOARCH
  firmwares,      \* firmwares.json, decoded
  versionsDir,    \* kobopatch-patches/src/versions: version -> fragment paths
  templateYaml,   \* kobopatch-patches/src/template/kobopatch.yaml
  overridesYaml,  \* overrides.yaml
  runNo,          \* which run of the program this is
  uuid,           \* -uuid
  version,        \* -version
  pc,             \* where the run is
  trace,          \* the stages the run has been in
  err,            \* what log.Fatalln reported, "" while there is none
  selected,       \* the FirmwareVersion patchFirmware was called with
  patchStarts,    \* calls of patchFirmware in this run
  built,          \* [pkg, out] of the go builds that succeeded in this run
  buildCmds,      \* go build commands executed in this run
  httpRequests,   \* http.Get calls of this run
  respStatus,     \* status of the response http.Get returned, "" if none
  dlBranch,       \* "fetch" or "skip" once downloadFirmware ran, else ""
  walkIdx,        \* next fragment of the concatenating walk
  runnerExe,      \* the binary name cmd.Run was given, "-" before that
  srcDir,         \* build/src: file name -> content
  binDir,         \* build/bin: the binaries in it
  buildYaml,      \* build/kobopatch.yaml: the struct written, <<>> if none
  returnedOk,     \* versions for which downloadFirmware has returned nil
  downloaded,     \* [version, body] of every download that ran to its end
  lastAssembly    \* the merged files the last completed concatenation left

inputs == <<platform, firmwares, versionsDir, templateYaml, overridesYaml>>
flags == <<runNo, uuid, version>>
ctl == <<pc, trace, err>>
lookupVars == <<selected, patchStarts>>
buildVars == <<built, buildCmds>>
dlVars == <<httpRequests, respStatus, dlBranch, returnedOk, downloaded>>
asmVars == <<walkIdx, lastAssembly>>
vars ==
  <<inputs, flags, ctl, lookupVars, buildVars, dlVars, asmVars, runnerExe,
    srcDir, binDir, buildYaml>>

StageOrder ==
  <<"Init", "CatalogLoaded", "VersionResolved", "Built", "Downloaded",
    "Assembled", "ConfigMerged", "Patched">>

Stage == trace[Len(trace)]

NoVersion == [Version |-> "", Download |-> <<>>]
NoAssembly == [done |-> FALSE, version |-> "", files |-> <<>>]

\* The state a run starts in: nothing done yet in this process.
RunStart(u, v) ==
  /\ uuid = u
  /\ version = v
  /\ pc = "mkdir"
  /\ trace = <<"Init">>
  /\ err = ""
  /\ selected = NoVersion
  /\ patchStarts = 0
  /\ built = {}
  /\ buildCmds = 0
  /\ httpRequests = 0
  /\ respStatus = ""
  /\ dlBranch = ""
  /\ walkIdx = 1
  /\ runnerExe = "-"

\* A fresh checkout: nothing under build/ yet.
FreshDisk ==
  /\ runNo = 1
  /\ srcDir = <<>>
  /\ binDir = {}
  /\ buildYaml = <<>>
  /\ returnedOk = {}
  /\ downloaded = {}
  /\ lastAssembly = NoAssembly

Init ==
  /\ platform \in Platforms
  /\ firmwares = DefaultCatalog
  /\ versionsDir = DefaultVersionsDir
  /\ templateYaml = DefaultTemplate
  /\ overridesYaml = DefaultOverrides
  /\ FreshDisk
  /\ \E u \in UUIDs, v \in Versions : RunStart(u, v)

\* ------------------------------------------------------------ steps of a run
\* log.Fatalln(err), or an error returned up to main's log.Fatalln.
Fail(e) ==
  /\ pc' = "fatal"
  /\ err' = e
  /\ trace' = Append(trace, "Failed")

\* The step succeeded and ends a stage.
Reach(stage, next) ==
  /\ pc' = next
  /\ err' = err
  /\ trace' = Append(trace, stage)

\* main: os.MkdirAll of build, build/bin, build/out, build/src.
MainMkdirAll ==
  /\ pc = "mkdir"
  /\ \/ pc' = "readFile" /\ UNCHANGED <<trace, err>>
     \/ Fail("mkdir")
  /\ UNCHANGED <<inputs, flags, lookupVars, buildVars, dlVars, asmVars, runnerExe,
                 srcDir, binDir, buildYaml>>

\* Variant of MainReadCatalog: the error of json.Unmarshal is not checked.
MainReadCatalogUnchecked ==
  /\ pc = "readFile"
  /\ \/ Reach("CatalogLoaded", "lookup")
     \/ Fail("read firmwares.json")
     \/ /\ pc' = "lookup"
        /\ err' = "unmarshal firmwares.json"
        /\ trace' = Append(trace, "Failed")
  /\ UNCHANGED <<inputs, flags, lookupVars, buildVars, dlVars, asmVars, runnerExe,
                 srcDir, binDir, buildYaml>>

\* main: ioutil.ReadFile("firmwares.json") and json.Unmarshal.
MainReadCatalog ==
  /\ pc = "readFile"
  /\ \/ Reach("CatalogLoaded", "lookup")
     \/ \E e \in {"read firmwares.json", "unmarshal firmwares.json"} : Fail(e)
  /\ UNCHANGED <<inputs, flags, lookupVars, buildVars, dlVars, asmVars, runnerExe,
                 srcDir, binDir, buildYaml>>

\* main: the two loops; patchFirmware(v) is entered for the entry found,
\* log.Fatalln("firmware not found!") when there is none.
MainLookup ==
  /\ pc = "lookup"
  /\ LET r == FindFirmware(firmwares, uuid, version)
     IN IF r.found
        THEN /\ selected' = firmwares[r.i].Versions[r.j]
             /\ patchStarts' = patchStarts + 1
             /\ Reach("VersionResolved", "build")
        ELSE /\ UNCHANGED lookupVars
             /\ Fail("firmware not found!")
  /\ UNCHANGED <<inputs, flags, buildVars, dlVars, asmVars, runnerExe,
                 srcDir, binDir, buildYaml>>

\* buildKobopatch: one pass of `for pkg, out := range buildMap`; Go ranges
\* over a map in no fixed order.  `go build -o=../build/bin/<out> ./<pkg>`
\* either leaves the binary or fails, and a failure is returned at once.
BuildPackage(pkg) ==
  /\ pc = "build"
  /\ pkg \in DOMAIN BuildMap(platform)
  /\ pkg \notin {b.pkg : b \in built}
  /\ buildCmds' = buildCmds + 1
  /\ \/ /\ built' = built \cup {[pkg |-> pkg, out |-> BuildMap(platform)[pkg]]}
        /\ binDir' = binDir \cup {BuildMap(platform)[pkg]}
        /\ UNCHANGED ctl
     \/ /\ UNCHANGED <<built, binDir>>
        /\ Fail("go build")
  /\ UNCHANGED <<inputs, flags, lookupVars, dlVars, asmVars, runnerExe, srcDir, buildYaml>>

\* buildKobopatch: the range is over, `return buildMap, nil`.
BuildDone ==
  /\ pc = "build"
  /\ DOMAIN BuildMap(platform) = {b.pkg : b \in built}
  /\ Reach("Built", "download")
  /\ UNCHANGED <<inputs, flags, lookupVars, buildVars, dlVars, asmVars, runnerExe,
                 srcDir, binDir, buildYaml>>

\* Variant of AlreadyExists: the file is never taken to be there.
AlreadyExistsNever(dir, v) == FALSE

\* os.Stat(outfile) does not report the file missing.
AlreadyExists(dir, v) == Outfile(v) \in DOMAIN dir

\* downloadFirmware(v.Download).  os.Stat reports the file missing exactly
\* when build/src has no such file.  http.Get returns an error only when no
\* response was received: a response of any status is copied to the file.
DownloadFirmware ==
  /\ pc = "download"
  /\ IF AlreadyExists(srcDir, version)
     THEN /\ dlBranch' = "skip"
          /\ returnedOk' = returnedOk \cup {version}
          /\ Reach("Downloaded", "clear")
          /\ UNCHANGED <<httpRequests, respStatus, downloaded, srcDir>>
     ELSE /\ dlBranch' = "fetch"
          /\ httpRequests' = httpRequests + 1
          /\ \/ \* http.Get failed
                /\ Fail("http.Get")
                /\ UNCHANGED <<respStatus, returnedOk, downloaded, srcDir>>
             \/ \E status \in StatusCodes :
                  LET body == ResponseBody(selected.Download, status)
                  IN /\ respStatus' = status
                     /\ \/ \* os.Create failed
                           /\ Fail("os.Create")
                           /\ UNCHANGED <<returnedOk, downloaded, srcDir>>
                        \/ \* io.Copy failed after some of the body was written
                           /\ \E part \in ProperPrefixes(body) :
                                srcDir' = (Outfile(version) :> part) @@ srcDir
                           /\ Fail("io.Copy")
                           /\ UNCHANGED <<returnedOk, downloaded>>
                        \/ \* the whole body was written
                           /\ srcDir' = (Outfile(version) :> body) @@ srcDir
                           /\ returnedOk' = returnedOk \cup {version}
                           /\ downloaded' = downloaded \cup
                                             {[version |-> version, body |-> body]}
                           /\ Reach("Downloaded", "clear")
  /\ UNCHANGED <<inputs, flags, lookupVars, buildVars, asmVars, runnerExe, binDir, buildYaml>>

\* The files of build/src in the order filepath.Walk meets them.
SrcWalk(dir) == WalkOrder({<<n>> : n \in DOMAIN dir})

\* patchFirmware: "Remove any pre-built yaml files": the walk over build/src
\* removes each file whose extension is .yaml; an error of the walk or of
\* an os.Remove ends it with the files met earlier already removed.
RemoveYamlFiles ==
  /\ pc = "clear"
  /\ LET order == SrcWalk(srcDir)
         yaml(upto) == {order[i][1] : i \in {k \in 1..upto : Ext(order[k][1]) = "yaml"}}
     IN \/ /\ srcDir' = Restrict(srcDir, DOMAIN srcDir \ yaml(Len(order)))
           /\ pc' = "concat"
           /\ UNCHANGED <<trace, err>>
        \/ \E failAt \in 0..Len(order) :
             /\ IF failAt = 0 THEN TRUE ELSE Ext(order[failAt][1]) = "yaml"
             /\ srcDir' = Restrict(srcDir, DOMAIN srcDir \ yaml(IF failAt = 0 THEN 0 ELSE failAt - 1))
             /\ Fail("remove yaml files")
  /\ walkIdx' = 1
  /\ UNCHANGED <<inputs, flags, lookupVars, buildVars, dlVars, lastAssembly, runnerExe,
                 binDir, buildYaml>>

\* What file b holds once `what` was appended to it (O_APPEND|O_CREATE).
Appended(dir, b, what) ==
  (b :> ((IF b \in DOMAIN dir THEN dir[b] ELSE <<>>) \o what)) @@ dir

\* The fragments of the version directory in the order the walk meets them.
Fragments(v) == WalkOrder(versionsDir[v])

\* patchFirmware: "Concat all patches together", one file of the walk:
\* appendFileToFile(path, build/src/<name of the file's directory>).
AppendFileToFile ==
  /\ pc = "concat"
  /\ walkIdx <= Len(Fragments(version))
  /\ LET path == Fragments(version)[walkIdx]
         yamlFile == ParentBase(path, version)
         bytes == FragmentBytes(version, path)
     IN \/ \* io.Copy and WriteString("\n") succeeded
           /\ srcDir' = Appended(srcDir, yamlFile, bytes \o <<Newline>>)
           /\ walkIdx' = walkIdx + 1
           /\ UNCHANGED ctl
        \/ \* os.Open or os.OpenFile failed
           /\ UNCHANGED <<srcDir, walkIdx>>
           /\ Fail("open")
        \/ \* io.Copy failed partway
           /\ \E part \in ProperPrefixes(bytes) : srcDir' = Appended(srcDir, yamlFile, part)
           /\ UNCHANGED walkIdx
           /\ Fail("append")
        \/ \* WriteString failed
           /\ srcDir' = Appended(srcDir, yamlFile, bytes)
           /\ UNCHANGED walkIdx
           /\ Fail("append newline")
  /\ UNCHANGED <<inputs, flags, lookupVars, buildVars, dlVars, lastAssembly, runnerExe,
                 binDir, buildYaml>>

\* The walk itself reports an error (a directory that cannot be read).
ConcatWalkFails ==
  /\ pc = "concat"
  /\ Fail("walk versions")
  /\ UNCHANGED <<inputs, flags, lookupVars, buildVars, dlVars, asmVars, runnerExe,
                 srcDir, binDir, buildYaml>>

\* The walk is over without an error.
ConcatDone ==
  /\ pc = "concat"
  /\ walkIdx > Len(Fragments(version))
  /\ lastAssembly' = [done |-> TRUE, version |-> version, files |-> MergedFiles(srcDir)]
  /\ Reach("Assembled", "yaml")
  /\ UNCHANGED <<inputs, flags, lookupVars, buildVars, dlVars, walkIdx, runnerExe,
                 srcDir, binDir, buildYaml>>

\* Variant of UpdateKobopatchYaml: patchFirmware goes on to the patcher
\* when updateKobopatchYaml returned an error.
UpdateKobopatchYamlErrDropped ==
  /\ pc = "yaml"
  /\ \/ /\ buildYaml' = MergedYaml(templateYaml, overridesYaml, version)
        /\ Reach("ConfigMerged", "run")
     \/ /\ UNCHANGED <<buildYaml, trace>>
        /\ pc' = "run"
        /\ \E e \in {"read template", "unmarshal template", "read overrides",
                      "unmarshal overrides", "marshal", "write kobopatch.yaml"} : err' = e
  /\ UNCHANGED <<inputs, flags, lookupVars, buildVars, dlVars, asmVars, runnerExe,
                 srcDir, binDir>>

\* updateKobopatchYaml: each read, unmarshal, marshal and write may fail;
\* build/kobopatch.yaml is written only at the end (a write that fails is
\* taken to leave the file as it was).
UpdateKobopatchYaml ==
  /\ pc = "yaml"
  /\ \/ /\ buildYaml' = MergedYaml(templateYaml, overridesYaml, version)
        /\ Reach("ConfigMerged", "run")
     \/ /\ UNCHANGED buildYaml
        /\ \E e \in {"read template", "unmarshal template", "read overrides",
                      "unmarshal overrides", "marshal", "write kobopatch.yaml"} : Fail(e)
  /\ UNCHANGED <<inputs, flags, lookupVars, buildVars, dlVars, asmVars, runnerExe,
                 srcDir, binDir>>

\* exec.Command("./bin/" + buildMap["kobopatch"]) in build/: it can run
\* only a file that is in build/bin, and the patcher may fail.
RunKobopatch ==
  /\ pc = "run"
  /\ runnerExe' = MapGet(BuildMap(platform), "kobopatch")
  /\ \/ /\ MapGet(BuildMap(platform), "kobopatch") \in binDir
        /\ Reach("Patched", "exit")
     \/ Fail("kobopatch")
  /\ UNCHANGED <<inputs, flags, lookupVars, buildVars, dlVars, asmVars,
                 srcDir, binDir, buildYaml>>

\* The program is run again, with any flags, on the disk the last run left.
Rerun ==
  /\ pc \in {"exit", "fatal"}
  /\ runNo < MaxRuns
  /\ runNo' = runNo + 1
  /\ uuid' \in UUIDs
  /\ version' \in Versions
  /\ pc' = "mkdir"
  /\ trace' = <<"Init">>
  /\ err' = ""
  /\ selected' = NoVersion
  /\ patchStarts' = 0
  /\ built' = {}
  /\ buildCmds' = 0
  /\ httpRequests' = 0
  /\ respStatus' = ""
  /\ dlBranch' = ""
  /\ walkIdx' = 1
  /\ runnerExe' = "-"
  /\ UNCHANGED <<inputs, srcDir, binDir, buildYaml, returnedOk, downloaded, lastAssembly>>

OneRun ==
  \/ MainMkdirAll
  \/ MainReadCatalog
  \/ MainLookup
  \/ \E pkg \in {"kobopatch", "tools/cssextract", "tools/kobopatch-apply"} : BuildPackage(pkg)
  \/ BuildDone
  \/ DownloadFirmware
  \/ RemoveYamlFiles
  \/ AppendFileToFile
  \/ ConcatWalkFails
  \/ ConcatDone
  \/ UpdateKobopatchYaml
  \/ RunKobopatch

Next == OneRun \/ Rerun

Spec == Init /\ [][Next]_vars

\* ------------------------------------------------------------ other specifications
\* One run on a fresh disk.
InitOneRun(catalogs, trees, templates, overrides) ==
  /\ platform = "linux/amd64"
  /\ firmwares \in catalogs
  /\ versionsDir \in trees
  /\ templateYaml \in templates
  /\ overridesYaml \in overrides
  /\ FreshDisk

\* The lookup, for every firmwares.json: main up to the call of patchFirmware.
InitLookup ==
  /\ InitOneRun(Catalogs, {DefaultVersionsDir}, {DefaultTemplate}, {DefaultOverrides})
  /\ \E u \in UUIDs, v \in Versions : RunStart(u, v)

NextLookup == MainMkdirAll \/ MainReadCatalog \/ MainLookup

SpecLookup == InitLookup /\ [][NextLookup]_vars

\* One run, for every tree of fragments of the version patched.
InitAssemble ==
  /\ InitOneRun({DefaultCatalog},
                {t \in [Versions -> SUBSET TreePaths] : t["v2"] = DefaultVersionsDir["v2"]},
                {DefaultTemplate}, {DefaultOverrides})
  /\ RunStart("u370", "v1")

SpecAssemble == InitAssemble /\ [][OneRun]_vars

\* One run, for every template and overrides document.
InitMerge ==
  /\ InitOneRun({DefaultCatalog}, {DefaultVersionsDir}, TemplateDocs, OverrideDocs)
  /\ \E v \in Versions : RunStart("u370", v)

SpecMerge == InitMerge /\ [][OneRun]_vars

\* ------------------------------------------------------------ claims
Reached(stage) == \E i \in 1..Len(trace) : trace[i] = stage

\* The stage the run is in at each place of the code.
StageAt ==
  [mkdir |-> "Init", readFile |-> "Init", lookup |-> "CatalogLoaded",
   build |-> "VersionResolved", download |-> "Built", clear |-> "Downloaded",
   concat |-> "Downloaded", yaml |-> "Assembled", run |-> "ConfigMerged",
   exit |-> "Patched", fatal |-> "Failed"]

\* The stages so far are an initial piece of the order, ended by Failed if
\* the run failed; the code is where that stage puts it; an error is fatal;
\* and what a stage does outside the program was done in its place.
StagesInOrder ==
  /\ \E k \in 1..Len(StageOrder) :
       \/ trace = SubSeq(StageOrder, 1, k)
       \/ k < Len(StageOrder) /\ trace = Append(SubSeq(StageOrder, 1, k), "Failed")
  /\ Stage = StageAt[pc]
  /\ (err # "") <=> (pc = "fatal")
  /\ patchStarts <= 1
  /\ patchStarts = 1 <=> Reached("VersionResolved")
  /\ buildCmds > 0 => Reached("VersionResolved")
  /\ Reached("Built") => built = {[pkg |-> x, out |-> BuildMap(platform)[x]] : x \in DOMAIN BuildMap(platform)}
  /\ dlBranch # "" => Reached("Built")
  /\ Reached("Downloaded") => dlBranch # ""
  /\ Reached("ConfigMerged") => buildYaml = MergedYaml(templateYaml, overridesYaml, version)
  /\ runnerExe # "-" => Reached("ConfigMerged")
  /\ Reached("Patched") => runnerExe # "-"

\* A failed run does nothing more: the only step left is a new run of the
\* program, which finds the disk as the failed run left it.
FailedRunHalts ==
  pc = "fatal" =>
    /\ runNo' = runNo + 1
    /\ pc' = "mkdir"
    /\ UNCHANGED <<srcDir, binDir, buildYaml>>

\* C1: a run passes through Init, CatalogLoaded, VersionResolved, Built,
\* Downloaded, Assembled, ConfigMerged, Patched in this order, each stage
\* starting only after the one before it succeeded; after the first failure
\* the run is in Failed, no later stage is executed, nothing is retried and
\* Patched is not reached.
C1_StageOrder == []StagesInOrder /\ [][FailedRunHalts]_vars

\* A run failed while concatenating, after build and download were done,
\* and neither the merger nor the patcher ran.
C1_Witness ==
  /\ trace = <<"Init", "CatalogLoaded", "VersionResolved", "Built", "Downloaded", "Failed">>
  /\ err = "append"
  /\ buildCmds > 0
  /\ runnerExe = "-"

\* The places (device, entry) of firmwares.json that match the flags.
Matches ==
  {m \in (1..Len(firmwares)) \X (1..MaxVersions + 1) :
     /\ m[2] <= Len(firmwares[m[1]].Versions)
     /\ firmwares[m[1]].Id = uuid
     /\ firmwares[m[1]].Versions[m[2]].Version = version}

FirstMatch ==
  CHOOSE m \in Matches :
    \A n \in Matches : m[1] < n[1] \/ (m[1] = n[1] /\ m[2] <= n[2])

\* C2: when some device of the catalog has the uuid and an entry with the
\* version, the first such entry in catalog order is selected and patching
\* is started once with it; when none has, patching is not started and the
\* run ends with the fatal "firmware not found!".
C2_LookupFirstMatch ==
  Reached("CatalogLoaded") /\ pc # "lookup" =>
    IF Matches # {}
    THEN /\ selected = firmwares[FirstMatch[1]].Versions[FirstMatch[2]]
         /\ patchStarts = 1
         /\ pc = "build"
    ELSE /\ selected = NoVersion
         /\ patchStarts = 0
         /\ pc = "fatal"
         /\ err = "firmware not found!"

\* Patching started although two devices carry the uuid and the version,
\* the first device's first entry being of another version.
C2_Witness ==
  /\ pc = "build"
  /\ \E m, n \in Matches : m[1] # n[1]
  /\ FirstMatch[2] > 1

\* C3 (as claimed): whenever downloadFirmware takes the "Already exists"
\* branch, the file at the target path holds the whole response body of an
\* earlier download that ran to its end.
C3_SkipOnlyCompleteFiles ==
  dlBranch = "skip" =>
    \E d \in downloaded :
      d.version = version /\ srcDir[Outfile(version)] = d.body

\* C4 (as claimed): when the GET returns a non-success status the
\* downloader returns an error, the run is Failed and the body is not
\* stored at the cache path.
C4_NonSuccessStatusFails ==
  respStatus = "404" =>
    /\ pc = "fatal"
    /\ (Outfile(version) \in DOMAIN srcDir =>
          srcDir[Outfile(version)] # ResponseBody(selected.Download, "404"))

\* C5 (as claimed): a concatenation that completes for the version of the
\* last completed one leaves every merged file as that one left it.
C5_AssemblerIdempotent ==
  [][(pc = "concat" /\ pc' = "yaml" /\ lastAssembly.done /\ lastAssembly.version = version)
       => lastAssembly'.files = lastAssembly.files]_vars

\* The directories of a tree that hold fragment files themselves.
Dirs(tree) == {SubSeq(p, 1, Len(p) - 1) : p \in tree}

DirName(d, v) == IF d = <<>> THEN <<v>> ELSE d[Len(d)]

FileNames(tree, d) == {p[Len(p)] : p \in {q \in tree : SubSeq(q, 1, Len(q) - 1) = d}}

RECURSIVE ByFileName(_)
ByFileName(names) ==
  IF names = {} THEN <<>>
  ELSE LET least == CHOOSE n \in names : \A m \in names \ {n} : NameLess(n, m)
       IN <<least>> \o ByFileName(names \ {least})

RECURSIVE EachWithNewline(_, _, _)
EachWithNewline(v, d, names) ==
  IF names = <<>> THEN <<>>
  ELSE FragmentBytes(v, Append(d, Head(names))) \o <<Newline>>
         \o EachWithNewline(v, d, Tail(names))

\* C6: from a build/src with no merged files, a concatenation that
\* completes leaves one merged file per patch group (a directory holding
\* fragment files; no two of them of the same name), named after the
\* directory, holding the group's fragments in the order of their file
\* names, each in full and followed by one newline, and nothing else.
C6_MergedPerGroup ==
  LET tree == versionsDir[version]
  IN (Reached("Assembled")
        /\ \A d, e \in Dirs(tree) : DirName(d, version) = DirName(e, version) => d = e)
     => /\ DOMAIN MergedFiles(srcDir) = {DirName(d, version) : d \in Dirs(tree)}
        /\ \A d \in Dirs(tree) :
             srcDir[DirName(d, version)]
               = EachWithNewline(version, d, ByFileName(FileNames(tree, d)))

\* Two groups were merged, display from two fragments.
C6_Witness ==
  /\ pc = "yaml"
  /\ versionsDir[version] = {<<GroupPlain, FragA>>, <<GroupPlain, FragB>>, <<GroupYaml, FragA>>}
  /\ DOMAIN MergedFiles(srcDir) = {GroupPlain, GroupYaml}

Fields == ScalarFields \cup MapFields

RunFieldsForced ==
  /\ buildYaml["Version"] = <<version>>
  /\ buildYaml["In"] = InPath(version)

ParsedTemplate == Unmarshal(ReplaceVersion(templateYaml, version), ZeroYaml)

MergeFailed ==
  err \in {"read template", "unmarshal template", "read overrides",
           "unmarshal overrides", "marshal", "write kobopatch.yaml"}

\* C8 (as claimed): in a run where the merger fails, no build command and
\* no patcher invocation is executed.
C8_MergerFailsBeforeBuilderAndRunner ==
  MergeFailed => buildCmds = 0 /\ built = {} /\ runnerExe = "-"

\* C8 (amended): in a run where the merger fails, the patcher is not
\* invoked; the Builder has run to its end before the merger starts.
C8_MergerFailsBeforeRunner ==
  MergeFailed =>
    /\ runnerExe = "-"
    /\ ~Reached("ConfigMerged")
    /\ Reached("Built")
    /\ buildCmds = Cardinality(DOMAIN BuildMap(platform))

\* The merger failed after three build commands had been executed.
C8_Witness == MergeFailed /\ buildCmds = 3 /\ pc = "fatal"

\* C9: once downloadFirmware has returned without error for a version,
\* every later call for that version makes no HTTP request, leaves the
\* file as it is, returns without error, and the version's file exists.
C9_DownloaderIdempotent ==
  /\ [](\A v \in returnedOk : Outfile(v) \in DOMAIN srcDir)
  /\ [][(pc = "download" /\ pc' # "download" /\ version \in returnedOk)
          => /\ httpRequests' = httpRequests
             /\ srcDir' = srcDir
             /\ dlBranch' = "skip"
             /\ pc' = "clear"
             /\ err' = ""]_vars

\* A later run skipped the download of a version an earlier run fetched.
C9_Witness ==
  /\ runNo > 1
  /\ dlBranch = "skip"
  /\ httpRequests = 0
  /\ \E d \in downloaded : d.version = version /\ srcDir[Outfile(version)] = d.body

\* C10 (as claimed): whenever the patcher is started, the executable is the
\* binary the Builder built from package kobopatch in this run; on an
\* unsupported platform the Builder builds nothing and returns no error.
C10_RunnerStartsBuiltPatcher ==
  /\ runnerExe # "-" => [pkg |-> "kobopatch", out |-> runnerExe] \in built
  /\ (DOMAIN BuildMap(platform) = {} /\ Reached("VersionResolved") /\ pc # "build")
       => Reached("Built") /\ buildCmds = 0 /\ built = {}

====
